---- MODULE Spec2Model ----
(***************************************************************************)
(* Model of the directory scanner (Core/scanner.py, class FileScanner) and *)
(* of count_by_extension (utils.py).                                       *)
(*                                                                         *)
(* A file name is a sequence of one-character strings, a path is the       *)
(* sequence of its components below "/" (so <<>> is the filesystem root).  *)
(* The recursive generator _iter_paths is an explicit stack of frames, one *)
(* per active os.scandir() iterator; scan() consumes it to exhaustion.     *)
(* The operating system is the environment: it may fail any call with an   *)
(* OSError (at most MaxFaults injected failures per scan), and a file's    *)
(* timestamp may be outside the range datetime.fromtimestamp accepts.      *)
(***************************************************************************)
EXTENDS Naturals, Integers, Sequences, FiniteSets, TLC

VARIABLES
    include_hidden,   \* FileScanner.include_hidden
    follow_symlinks,  \* FileScanner.follow_symlinks
    root,             \* FileScanner.root (resolved)
    stack,            \* active _iter_paths generator frames, innermost last
    out,              \* records yielded by scan() so far
    pc,               \* "scanning" | "done" | "raised" | "util"
    faults,           \* number of OS errors injected so far
    listed,           \* history: directories opened by os.scandir, in order
    failedDirs,       \* history: directory paths whose os.scandir raised
    fileLog,          \* history: outcome of path_to_metadata per yielded path
    visited,          \* history: entry paths the loop of _iter_paths processed
    items,            \* argument of count_by_extension
    counts            \* result of count_by_extension (ordered mapping)

vars == <<include_hidden, follow_symlinks, root, stack, out, pc, faults,
          listed, failedDirs, fileLog, visited, items, counts>>

-----------------------------------------------------------------------------
(* Bounds *)

\* OS errors the environment injects during one scan
MaxFaults == 1

\* symbolic links the kernel follows while resolving one path (ELOOP beyond)
MaxSymlinks == 1

\* length of the record list given to count_by_extension
MaxItems == 4

-----------------------------------------------------------------------------
(* Program constants *)

SMALL_PREVIEW_LIMIT == 1000000

PROBE_BYTES == 1024

None == "None"

\* the preview of a record when one was read (some str, possibly empty)
PreviewStr == "str"

-----------------------------------------------------------------------------
(* File names *)

n_home == <<"h", "o", "m", "e">>
n_proj == <<"p", "r", "o", "j">>
n_cfg == <<".", "c", "f", "g">>
n_cur == <<"c", "u", "r">>
n_data == <<"d", "a", "t", "a">>
n_atxt == <<"a", ".", "t", "x", "t">>
n_sub == <<"s", "u", "b">>
n_hid == <<".", "h", "i", "d">>
n_lnk == <<"l", "n", "k">>
n_fa == <<"f", "a">>
n_dead == <<"d", "e", "a", "d">>
n_pipe == <<"p", "i", "p", "e">>
n_zmd == <<"z", ".", "M", "D">>
n_img == <<"i", "m", "g", ".", "b", "i", "n">>
n_loop == <<"l", "o", "o", "p">>
n_c == <<"c">>
n_stxt == <<"s", ".", "t", "x", "t">>
n_dtxt == <<"d", ".", "t", "x", "t">>
n_none == <<"n", "o", "n", "e">>

p_home == <<n_home>>
p_proj == <<n_home, n_proj>>
p_cfg == <<n_home, n_cfg>>
p_data == <<n_home, n_cfg, n_data>>
p_cur == <<n_home, n_cur>>
p_sub == <<n_home, n_proj, n_sub>>
p_hid == <<n_home, n_proj, n_hid>>

-----------------------------------------------------------------------------
(* The file system on disk.  A file's content is run-length encoded: a     *)
(* sequence of runs [b |-> byte value, n |-> repetitions].                 *)

Dir(entries) == [type |-> "dir", entries |-> entries, target |-> <<>>, content |-> <<>>]

File(content) == [type |-> "file", entries |-> <<>>, target |-> <<>>, content |-> content]

Link(target) == [type |-> "link", entries |-> <<>>, target |-> target, content |-> <<>>]

Other == [type |-> "other", entries |-> <<>>, target |-> <<>>, content |-> <<>>]

Run(b, n) == [b |-> b, n |-> n]

Tree ==
    (<<>> :> Dir(<<n_home>>))
 @@ (p_home :> Dir(<<n_proj, n_cfg, n_cur>>))
 @@ (p_cur :> Link(p_proj))
 @@ (p_proj :> Dir(<<n_atxt, n_sub, n_hid, n_lnk, n_fa, n_dead, n_pipe, n_zmd>>))
 @@ (p_proj \o <<n_atxt>> :> File(<<Run(104, 11)>>))
 @@ (p_sub :> Dir(<<n_img, n_loop, n_c>>))
 @@ (p_sub \o <<n_img>> :> File(<<Run(0, 1), Run(65, 9)>>))
 @@ (p_sub \o <<n_loop>> :> Link(p_proj))
 @@ (p_sub \o <<n_c>> :> File(<<Run(65, 1024), Run(0, 1), Run(65, 975)>>))
 @@ (p_hid :> Dir(<<n_stxt>>))
 @@ (p_hid \o <<n_stxt>> :> File(<<Run(255, 1000000)>>))
 @@ (p_proj \o <<n_lnk>> :> Link(p_hid))
 @@ (p_proj \o <<n_fa>> :> Link(p_proj \o <<n_atxt>>))
 @@ (p_proj \o <<n_dead>> :> Link(<<n_home, n_none>>))
 @@ (p_proj \o <<n_pipe>> :> Other)
 @@ (p_proj \o <<n_zmd>> :> File(<<Run(65, 1000001)>>))
 @@ (p_cfg :> Dir(<<n_data>>))
 @@ (p_data :> Dir(<<n_dtxt>>))
 @@ (p_data \o <<n_dtxt>> :> File(<<Run(65, 1023), Run(0, 1)>>))

\* the root arguments a scanner is constructed with (all exist on disk)
RootArgs == {p_proj, p_cur, p_data, p_cfg}

-----------------------------------------------------------------------------
(* pathlib *)

\* Path.name: the final component, '' for the filesystem root
PathName(p) == IF p = <<>> THEN <<>> ELSE p[Len(p)]

\* Path.parent: the root is its own parent
PathParent(p) == IF p = <<>> THEN p ELSE SubSeq(p, 1, Len(p) - 1)

\* str.startswith('.')
StartsWithDot(name) == Len(name) > 0 /\ name[1] = "."

\* str.rfind('.'), 1-based, 0 when absent
RFindDot(name) ==
    LET idx == {i \in 1..Len(name) : name[i] = "."}
    IN  IF idx = {} THEN 0 ELSE CHOOSE i \in idx : \A j \in idx : j <= i

\* Path.suffix
PathSuffix(p) ==
    LET name == PathName(p)
        i == RFindDot(name)
    IN  IF 1 < i /\ i < Len(name) THEN SubSeq(name, i, Len(name)) ELSE <<>>

\* str.lower() on the characters that occur in names
LowerChar(ch) ==
    CASE ch = "M" -> "m"
      [] ch = "D" -> "d"
      [] OTHER -> ch

Lower(s) == [i \in 1..Len(s) |-> LowerChar(s[i])]

-----------------------------------------------------------------------------
(* Kernel path resolution *)

RECURSIVE Walk(_, _, _, _)
\* resolve the components rest below the resolved directory cur, following
\* at most budget symbolic links; the last component is followed iff followLast
Walk(cur, rest, budget, followLast) ==
    IF rest = <<>> THEN [st |-> "ok", real |-> cur]
    ELSE LET nxt == Append(cur, Head(rest))
         IN  IF nxt \notin DOMAIN Tree THEN [st |-> "ENOENT", real |-> <<>>]
             ELSE IF Tree[nxt].type = "link" /\ (Len(rest) > 1 \/ followLast)
                  THEN IF budget = 0 THEN [st |-> "ELOOP", real |-> <<>>]
                       ELSE Walk(<<>>, Tree[nxt].target \o Tail(rest), budget - 1, followLast)
             ELSE IF Len(rest) > 1 /\ Tree[nxt].type # "dir"
                  THEN [st |-> "ENOTDIR", real |-> <<>>]
             ELSE Walk(nxt, Tail(rest), budget, followLast)

\* stat(path) / lstat(path)
Lookup(path, follow) == Walk(<<>>, path, MaxSymlinks, follow)

\* the type a stat of path reports, or the errno
StatType(path, follow) ==
    LET r == Lookup(path, follow)
    IN  IF r.st = "ok" THEN Tree[r.real].type ELSE r.st

-----------------------------------------------------------------------------
(* FileScanner helpers *)

\* mutant: the root is taken as given, symbolic links unresolved
ResolveRoot_unresolved(arg) == arg

\* Path(root).expanduser().resolve(): symbolic links resolved; a path that
\* does not resolve is kept as given (and then fails the exists() check)
ResolveRoot(arg) ==
    LET r == Lookup(arg, TRUE)
    IN  IF r.st = "ok" THEN r.real ELSE arg

\* Path.exists()
Exists(path) == Lookup(path, TRUE).st = "ok"

RECURSIVE HiddenAncestor(_)
\* the while-loop of _is_hidden: climb from p to the filesystem root
HiddenAncestor(p) ==
    IF StartsWithDot(PathName(p)) THEN TRUE
    ELSE IF PathParent(p) = p THEN FALSE
    ELSE HiddenAncestor(PathParent(p))

\* mutant: only the entry's own name is tested
is_hidden_name_only(name, parent) == StartsWithDot(name)

\* FileScanner._is_hidden(name, parent)
is_hidden(name, parent) ==
    IF StartsWithDot(name) THEN TRUE ELSE HiddenAncestor(parent)

\* DirEntry.is_dir / is_file raise OSError unless the error is "not found"
EntryRaises(path, follow) ==
    follow /\ StatType(path, TRUE) \in {"ELOOP", "ENOTDIR"}

\* entry.is_dir(follow_symlinks=follow)
entry_is_dir(path, follow) == StatType(path, follow) = "dir"

\* entry.is_file(follow_symlinks=follow)
entry_is_file(path, follow) == StatType(path, follow) = "file"

\* os.path.islink(entry.path)
islink(path) == StatType(path, FALSE) = "link"

\* mutant: is_dir always follows symbolic links and the guard is missing
Descends_always_follow(path, follow) == entry_is_dir(path, TRUE)

\* the entry is recursed into: the is_dir branch, minus the symlink guard
Descends(path, follow) ==
    entry_is_dir(path, follow) /\ ~(~follow /\ islink(path))

\* the entry is yielded as a file path: the elif branch
YieldsFile(path, follow) ==
    ~entry_is_dir(path, follow) /\ entry_is_file(path, follow)

-----------------------------------------------------------------------------
(* File content and record construction *)

RECURSIVE SizeOf(_)
\* st.st_size: the number of bytes of the content
SizeOf(content) ==
    IF content = <<>> THEN 0 ELSE Head(content).n + SizeOf(Tail(content))

RECURSIVE ReadBytes(_, _)
\* f.read(k): the first k bytes of the content (fewer at end of file)
ReadBytes(content, k) ==
    IF content = <<>> \/ k = 0 THEN <<>>
    ELSE IF Head(content).n >= k THEN <<Run(Head(content).b, k)>>
    ELSE <<Head(content)>> \o ReadBytes(Tail(content), k - Head(content).n)

\* b"\x00" in chunk
HasNul(chunk) == \E i \in 1..Len(chunk) : chunk[i].b = 0 /\ chunk[i].n > 0

\* mutant: the whole file is searched for a NUL byte
looks_like_text_whole_file(content, probe_bytes, readable) ==
    IF ~readable THEN FALSE
    ELSE IF HasNul(content) THEN FALSE
    ELSE TRUE

\* FileScanner._looks_like_text(path, probe_bytes); readable: the open/read
\* did not raise
looks_like_text(content, probe_bytes, readable) ==
    IF ~readable THEN FALSE
    ELSE IF HasNul(ReadBytes(content, probe_bytes)) THEN FALSE
    ELSE TRUE

\* FileScanner._safe_read_preview(path, chars)
safe_read_preview(content, readable) ==
    IF readable THEN PreviewStr ELSE None

\* mutant: the size cap is not tested
PreviewAttempted_any_size(is_text, size) == is_text

\* the preview is attempted: the if of path_to_metadata
PreviewAttempted(is_text, size) == is_text /\ size <= SMALL_PREVIEW_LIMIT

\* FileScanner.path_to_metadata(path) once stat and the timestamps succeeded
path_to_metadata(path, probeOk, previewOk) ==
    LET content == Tree[Lookup(path, TRUE).real].content
        size == SizeOf(content)
        ext == IF PathSuffix(path) # <<>> THEN Lower(Tail(PathSuffix(path))) ELSE <<>>
        is_text == looks_like_text(content, PROBE_BYTES, probeOk)
        preview == IF PreviewAttempted(is_text, size)
                   THEN safe_read_preview(content, previewOk)
                   ELSE None
    IN  [path |-> path, name |-> PathName(path), parent |-> PathParent(path),
         extension |-> ext, size_bytes |-> size, is_text |-> is_text,
         preview |-> preview]

-----------------------------------------------------------------------------
(* utils.count_by_extension *)

\* m.extension or "-"
ExtKey(m) == IF m.extension = <<>> THEN <<"-">> ELSE m.extension

\* Counter update with one more key; insertion order of the keys is kept
CounterAdd(c, k) ==
    IF \E i \in 1..Len(c) : c[i].k = k
    THEN [i \in 1..Len(c) |-> IF c[i].k = k THEN [k |-> k, v |-> c[i].v + 1] ELSE c[i]]
    ELSE Append(c, [k |-> k, v |-> 1])

RECURSIVE Counter(_, _)
\* Counter(list) over the first n elements
Counter(list, n) ==
    IF n = 0 THEN <<>> ELSE CounterAdd(Counter(list, n - 1), ExtKey(list[n]))

\* insert x behind every element whose count is at least x's (stable)
InsertByCount(sorted, x) ==
    LET before == {i \in 1..Len(sorted) : sorted[i].v >= x.v}
        pos == Cardinality(before)
    IN  SubSeq(sorted, 1, pos) \o <<x>> \o SubSeq(sorted, pos + 1, Len(sorted))

RECURSIVE SortByCount(_, _)
\* sorted(items, key=itemgetter(1), reverse=True) over the first n elements
SortByCount(c, n) ==
    IF n = 0 THEN <<>> ELSE InsertByCount(SortByCount(c, n - 1), c[n])

\* mutant: the items are left in insertion order
most_common_unsorted(c) == c

\* Counter.most_common()
most_common(c) == SortByCount(c, Len(c))

\* count_by_extension(items): the dict, as its ordered sequence of items
count_by_extension(list) == most_common(Counter(list, Len(list)))

-----------------------------------------------------------------------------
(* The generator stack *)

Frame(directory) == [directory |-> directory, it |-> <<>>, open |-> FALSE]

Top == stack[Len(stack)]

\* the innermost generator returns
Pop(stk) == SubSeq(stk, 1, Len(stk) - 1)

\* the innermost scandir iterator hands out its next entry
Advance(stk) == [stk EXCEPT ![Len(stk)].it = Tail(@)]

\* mutant: the error ends the whole traversal
OnListError_abort(stk) == <<>>

\* the except clause around os.scandir: only this generator returns
OnListError(stk) == Pop(stk)

\* mutant: the error ends the whole traversal
OnFileError_abort(stk) == <<>>

\* the except clause of scan(): continue with the next yielded path
OnFileError(stk) == Advance(stk)

\* an entry is being processed by the loop body of _iter_paths
AtEntry == pc = "scanning" /\ stack # <<>> /\ Top.open /\ Top.it # <<>>

EntryName == Head(Top.it)

\* entry.path
EntryPath == Append(Top.directory, EntryName)

\* the entry passes the hidden-file filter
Visible == include_hidden \/ ~is_hidden(EntryName, Top.directory)

\* the entry is visible and inspecting its type does not raise
Inspected == AtEntry /\ Visible /\ ~EntryRaises(EntryPath, follow_symlinks)

LogEntry(path, stat, probe, preview) ==
    [path |-> path, stat |-> stat, probe |-> probe, preview |-> preview]

-----------------------------------------------------------------------------
(* Initial states: a scanner constructed by __init__, scan() just called *)

Init ==
    /\ include_hidden \in BOOLEAN
    /\ follow_symlinks \in BOOLEAN
    /\ \E arg \in RootArgs :
          /\ Exists(ResolveRoot(arg))
          /\ root = ResolveRoot(arg)
    /\ stack = <<Frame(root)>>
    /\ out = <<>>
    /\ pc = "scanning"
    /\ faults = 0
    /\ listed = <<>>
    /\ failedDirs = {}
    /\ fileLog = <<>>
    /\ visited = {}
    /\ items = <<>>
    /\ counts = <<>>

-----------------------------------------------------------------------------
(* Actions of scan() / _iter_paths *)

\* os.scandir(directory) succeeds: the generator starts iterating
ScandirOpen ==
    /\ pc = "scanning" /\ stack # <<>> /\ ~Top.open
    /\ StatType(Top.directory, TRUE) = "dir"
    /\ LET real == Lookup(Top.directory, TRUE).real
       IN  /\ stack' = [stack EXCEPT ![Len(stack)] =
                            [@ EXCEPT !.it = Tree[real].entries, !.open = TRUE]]
           /\ listed' = Append(listed, [path |-> Top.directory, real |-> real])
    /\ UNCHANGED <<visited, include_hidden, follow_symlinks, root, out, pc, faults,
                   failedDirs, fileLog, items, counts>>

\* os.scandir(directory) raises (the path is no directory, or the OS refuses):
\* the generator returns silently
ScandirError ==
    /\ pc = "scanning" /\ stack # <<>> /\ ~Top.open
    /\ LET natural == StatType(Top.directory, TRUE) # "dir"
       IN  /\ ~(~natural /\ faults >= MaxFaults)
           /\ faults' = IF natural THEN faults ELSE faults + 1
    /\ failedDirs' = failedDirs \cup {Top.directory}
    /\ stack' = OnListError(stack)
    /\ UNCHANGED <<visited, include_hidden, follow_symlinks, root, out, pc, listed,
                   fileLog, items, counts>>

\* the hidden-file filter skips the entry
EntryHidden ==
    /\ AtEntry
    /\ ~Visible
    /\ stack' = Advance(stack)
    /\ visited' = visited \cup {EntryPath}
    /\ UNCHANGED <<include_hidden, follow_symlinks, root, out, pc, faults,
                   listed, failedDirs, fileLog, items, counts>>

\* inspecting the entry raises (too many symbolic links, or the OS refuses):
\* the inner except clause continues with the next entry
EntryError ==
    /\ AtEntry
    /\ Visible
    /\ LET natural == EntryRaises(EntryPath, follow_symlinks)
       IN  /\ ~(~natural /\ faults >= MaxFaults)
           /\ faults' = IF natural THEN faults ELSE faults + 1
    /\ stack' = Advance(stack)
    /\ visited' = visited \cup {EntryPath}
    /\ UNCHANGED <<include_hidden, follow_symlinks, root, out, pc, listed,
                   failedDirs, fileLog, items, counts>>

\* the entry is a directory to recurse into: yield from _iter_paths(entry.path)
EntryDescend ==
    /\ Inspected
    /\ Descends(EntryPath, follow_symlinks)
    /\ stack' = Append(Advance(stack), Frame(EntryPath))
    /\ visited' = visited \cup {EntryPath}
    /\ UNCHANGED <<include_hidden, follow_symlinks, root, out, pc, faults,
                   listed, failedDirs, fileLog, items, counts>>

\* the entry is neither recursed into nor a file: nothing happens
EntryIgnored ==
    /\ Inspected
    /\ ~Descends(EntryPath, follow_symlinks)
    /\ ~YieldsFile(EntryPath, follow_symlinks)
    /\ stack' = Advance(stack)
    /\ visited' = visited \cup {EntryPath}
    /\ UNCHANGED <<include_hidden, follow_symlinks, root, out, pc, faults,
                   listed, failedDirs, fileLog, items, counts>>

\* the entry is yielded and path_to_metadata raises an OSError (path.stat(),
\* or the C localtime of _ts_to_dt): scan() skips the file
FileStatError ==
    /\ Inspected
    /\ YieldsFile(EntryPath, follow_symlinks)
    /\ faults < MaxFaults
    /\ faults' = faults + 1
    /\ fileLog' = Append(fileLog, LogEntry(EntryPath, "err", "na", "na"))
    /\ stack' = OnFileError(stack)
    /\ visited' = visited \cup {EntryPath}
    /\ UNCHANGED <<include_hidden, follow_symlinks, root, out, pc, listed,
                   failedDirs, items, counts>>

\* the entry is yielded and _ts_to_dt raises ValueError (a timestamp whose
\* year is outside 1..9999): no except clause of scan() matches
FileTimestampRaises ==
    /\ Inspected
    /\ YieldsFile(EntryPath, follow_symlinks)
    /\ fileLog' = Append(fileLog, LogEntry(EntryPath, "tsraise", "na", "na"))
    /\ pc' = "raised"
    /\ stack' = <<>>
    /\ visited' = visited \cup {EntryPath}
    /\ UNCHANGED <<include_hidden, follow_symlinks, root, out, faults, listed,
                   failedDirs, items, counts>>

\* the entry is yielded and path_to_metadata returns a record
FileRecord ==
    /\ Inspected
    /\ YieldsFile(EntryPath, follow_symlinks)
    /\ \E probeOk \in BOOLEAN, previewOk \in BOOLEAN :
          LET rec == path_to_metadata(EntryPath, probeOk, previewOk)
              attempted == PreviewAttempted(rec.is_text, rec.size_bytes)
              failed == (IF probeOk THEN 0 ELSE 1) + (IF previewOk THEN 0 ELSE 1)
          IN  /\ ~(~attempted /\ ~previewOk)
              /\ faults + failed <= MaxFaults
              /\ faults' = faults + failed
              /\ out' = Append(out, rec)
              /\ fileLog' = Append(fileLog,
                     LogEntry(EntryPath, "ok",
                              IF probeOk THEN "ok" ELSE "err",
                              IF ~attempted THEN "na"
                              ELSE IF previewOk THEN "ok" ELSE "err"))
    /\ stack' = Advance(stack)
    /\ visited' = visited \cup {EntryPath}
    /\ UNCHANGED <<include_hidden, follow_symlinks, root, pc, listed,
                   failedDirs, items, counts>>

\* the scandir iterator is exhausted: the generator returns
DirExhausted ==
    /\ pc = "scanning" /\ stack # <<>> /\ Top.open /\ Top.it = <<>>
    /\ stack' = Pop(stack)
    /\ UNCHANGED <<visited, include_hidden, follow_symlinks, root, out, pc, faults,
                   listed, failedDirs, fileLog, items, counts>>

\* the outermost generator returned: scan() is exhausted
ScanDone ==
    /\ pc = "scanning" /\ stack = <<>>
    /\ pc' = "done"
    /\ UNCHANGED <<visited, include_hidden, follow_symlinks, root, stack, out, faults,
                   listed, failedDirs, fileLog, items, counts>>

\* main.run: count_by_extension(files) on the scanned records
RunCount ==
    /\ pc = "done"
    /\ items' = out
    /\ counts' = count_by_extension(out)
    /\ pc' = "reported"
    /\ UNCHANGED <<visited, include_hidden, follow_symlinks, root, stack, out, faults,
                   listed, failedDirs, fileLog>>

Next ==
    \/ ScandirOpen
    \/ ScandirError
    \/ EntryHidden
    \/ EntryError
    \/ EntryDescend
    \/ EntryIgnored
    \/ FileStatError
    \/ FileTimestampRaises
    \/ FileRecord
    \/ DirExhausted
    \/ ScanDone
    \/ RunCount

Spec == Init /\ [][Next]_vars

-----------------------------------------------------------------------------
(* count_by_extension on arbitrary record lists *)

Extensions == {<<>>, <<"-">>, <<"m", "d">>, <<"t", "x", "t">>}

ItemLists == UNION {[1..n -> [extension : Extensions]] : n \in 0..MaxItems}

InitCount ==
    /\ include_hidden = FALSE
    /\ follow_symlinks = FALSE
    /\ root = <<>>
    /\ stack = <<>>
    /\ out = <<>>
    /\ pc = "util"
    /\ faults = 0
    /\ listed = <<>>
    /\ failedDirs = {}
    /\ fileLog = <<>>
    /\ visited = {}
    /\ items \in ItemLists
    /\ counts = <<>>

CountItems ==
    /\ pc = "util"
    /\ counts' = count_by_extension(items)
    /\ pc' = "counted"
    /\ UNCHANGED <<visited, include_hidden, follow_symlinks, root, stack, out, faults,
                   listed, failedDirs, fileLog, items>>

NextCount == CountItems

SpecCount == InitCount /\ [][NextCount]_vars

-----------------------------------------------------------------------------
(* Vocabulary of the properties *)

IsPrefix(p, q) == Len(p) <= Len(q) /\ SubSeq(q, 1, Len(p)) = p

\* path q lies strictly beneath directory path d
Beneath(q, d) == Len(d) < Len(q) /\ IsPrefix(d, q)

\* some component of the path begins with '.'
HasDotComponent(path) == \E k \in 1..Len(path) : StartsWithDot(path[k])

\* every prefix of the path exists and none is a symbolic link
Resolved(path) ==
    \A k \in 1..Len(path) :
        /\ SubSeq(path, 1, k) \in DOMAIN Tree
        /\ Tree[SubSeq(path, 1, k)].type # "link"

HasRecord(path) == \E i \in 1..Len(out) : out[i].path = path

RecordOf(path) == out[CHOOSE i \in 1..Len(out) : out[i].path = path]

Finished == pc \in {"done", "reported"}

StatOk(l) == l.stat = "ok"

\* the log entries of the calls of path_to_metadata that returned a record
OkLog == SelectSeq(fileLog, StatOk)

\* the entries a listing of the directory at path par hands out
EntriesOf(par) == Tree[Lookup(par, TRUE).real].entries

\* the entries enumerated after the entry called name
LaterSiblings(path) ==
    LET ents == EntriesOf(PathParent(path))
        k == CHOOSE j \in 1..Len(ents) : ents[j] = PathName(path)
    IN  {Append(PathParent(path), ents[j]) : j \in (k + 1)..Len(ents)}

RECURSIVE FirstNul(_, _)
\* offset of the first NUL byte of the content at or after offset, -1 if none
FirstNul(content, offset) ==
    IF content = <<>> THEN -1
    ELSE IF Head(content).b = 0 /\ Head(content).n > 0 THEN offset
    ELSE FirstNul(Tail(content), offset + Head(content).n)

ContentAt(path) == Tree[Lookup(path, TRUE).real].content

\* the regular files under the root that pass the hidden-file filter
ExpectedFiles ==
    {p \in DOMAIN Tree :
        /\ Tree[p].type = "file"
        /\ Beneath(p, root)
        /\ (include_hidden \/ ~HasDotComponent(p))}

-----------------------------------------------------------------------------
(* C1 *)

\* C1: consuming scan() to exhaustion never raises: every failure met while
\* listing, inspecting, stat'ing, converting timestamps, probing or reading
\* the preview is absorbed.  (Refuted: a timestamp out of range raises
\* ValueError, which no except clause of scan() catches.)
C1_ScanNeverRaises == pc # "raised"

-----------------------------------------------------------------------------
(* C2 *)

\* C2: with include_hidden = false no yielded record has a path with a
\* component (own name or any ancestor up to the filesystem root) beginning
\* with '.'; a scan rooted inside a dot-named directory yields nothing.
C2_NoHiddenRecord ==
    ~include_hidden =>
        /\ \A i \in 1..Len(out) : ~HasDotComponent(out[i].path)
        /\ (HasDotComponent(root) => out = <<>>)

\* a finished scan of proj without hidden files: .hid was filtered and
\* records were yielded
C2_Witness ==
    /\ ~include_hidden
    /\ Finished
    /\ root = p_proj
    /\ p_hid \in visited
    /\ Len(out) >= 3

-----------------------------------------------------------------------------
(* C3 *)

-----------------------------------------------------------------------------
(* C4 *)

\* no directory reached through a symbolic link was listed, and no real
\* directory was listed twice
C4_ListedOnce ==
    /\ \A i \in 1..Len(listed) : listed[i].path = listed[i].real
    /\ \A i \in 1..Len(listed) : Resolved(listed[i].path)
    /\ \A i, j \in 1..Len(listed) : listed[i].real = listed[j].real => i = j

\* the entries on disk beneath the root that the loop has not processed yet
Unvisited == {p \in DOMAIN Tree : Beneath(p, root)} \ visited

\* work still ahead of a generator frame: open it, then exhaust it
FrameRank(f) == IF f.open THEN 1 ELSE 2

RECURSIVE StackRank(_)
StackRank(stk) ==
    IF stk = <<>> THEN 0 ELSE FrameRank(Head(stk)) + StackRank(Tail(stk))

\* a natural number that bounds the steps scan() can still take
Rank ==
    3 * Cardinality(Unvisited) + StackRank(stack)
      + (IF pc = "scanning" THEN 2 ELSE IF pc = "done" THEN 1 ELSE 0)

\* C4: with follow_symlinks = false, scan() never descends into a symbolic
\* link, lists each real directory at most once, and terminates, also on a
\* tree whose symbolic links form a cycle: every step strictly decreases a
\* natural-number measure bounded by the size of the tree under the root.
C4_NoSymlinkDescentTerminates ==
    /\ [](~follow_symlinks => C4_ListedOnce)
    /\ [][~follow_symlinks => Rank' < Rank]_vars

\* a finished scan that met the cyclic link sub/loop and the linked
\* directory lnk without following them
C4_Witness ==
    /\ ~follow_symlinks
    /\ Finished
    /\ (p_sub \o <<n_loop>>) \in visited
    /\ (p_proj \o <<n_lnk>>) \in visited
    /\ \E i \in 1..Len(listed) : listed[i].path = p_sub

-----------------------------------------------------------------------------
(* C5 *)

\* C5: when no OS error occurs and follow_symlinks = false, scan() yields
\* exactly one record per regular file under the root that passes the hidden
\* filter, and none for anything else.  (Refuted: a file whose timestamp is
\* out of range makes scan() raise before the remaining files are yielded.)
C5_ExactlyRegularFiles ==
    (pc # "scanning" /\ faults = 0 /\ failedDirs = {} /\ ~follow_symlinks) =>
        /\ {out[i].path : i \in 1..Len(out)} = ExpectedFiles
        /\ \A i, j \in 1..Len(out) : out[i].path = out[j].path => i = j

-----------------------------------------------------------------------------
(* C6 *)

\* C6 as stated: preview is present iff is_text and size_bytes <= 1,000,000,
\* for every outcome of the preview read.
C6_PreviewIff ==
    \A i \in 1..Len(out) :
        (out[i].preview # None) <=>
            (out[i].is_text /\ out[i].size_bytes <= SMALL_PREVIEW_LIMIT)

\* C6 (amended): preview is present iff is_text, size_bytes <= 1,000,000 and
\* the preview read did not fail.
C6_PreviewUnlessReadFailed ==
    /\ Len(OkLog) = Len(out)
    /\ \A i \in 1..Len(out) :
          /\ OkLog[i].path = out[i].path
          /\ (out[i].preview # None) <=>
                /\ out[i].is_text
                /\ out[i].size_bytes <= SMALL_PREVIEW_LIMIT
                /\ OkLog[i].preview # "err"

\* a small text file whose preview read failed, next to an oversized text
\* file and a file of exactly the limit with a preview
C6_Witness ==
    /\ \E i \in 1..Len(out) :
          /\ out[i].is_text
          /\ out[i].size_bytes <= SMALL_PREVIEW_LIMIT
          /\ out[i].preview = None
    /\ \E i \in 1..Len(out) :
          /\ out[i].size_bytes = SMALL_PREVIEW_LIMIT
          /\ out[i].preview # None
    /\ \E i \in 1..Len(out) :
          /\ out[i].is_text
          /\ out[i].size_bytes = SMALL_PREVIEW_LIMIT + 1

-----------------------------------------------------------------------------
(* C7 *)

\* C7 as stated: every record's path is fully resolved (no component is a
\* symbolic link), for both settings of follow_symlinks.
C7_PathResolved == \A i \in 1..Len(out) : Resolved(out[i].path)

\* C7 (amended): every record's path lies beneath the resolved root, and
\* with follow_symlinks = false it is fully resolved.
C7_PathResolvedNoFollow ==
    /\ Resolved(root)
    /\ \A i \in 1..Len(out) :
          /\ Beneath(out[i].path, root)
          /\ (~follow_symlinks => Resolved(out[i].path))

\* a finished scan without following that passed the links lnk and fa and
\* yielded a file two levels down
C7_Witness ==
    /\ ~follow_symlinks
    /\ Finished
    /\ (p_proj \o <<n_lnk>>) \in visited
    /\ (p_proj \o <<n_fa>>) \in visited
    /\ HasRecord(p_sub \o <<n_c>>)

-----------------------------------------------------------------------------
(* C8 *)

KeysOf(c) == {c[i].k : i \in 1..Len(c)}

\* number of items whose key under f is k
CountOf(k, KeyFn(_)) == Cardinality({i \in 1..Len(items) : KeyFn(items[i]) = k})

\* index of the first item whose key under f is k
FirstAt(k, KeyFn(_)) ==
    CHOOSE i \in 1..Len(items) :
        /\ KeyFn(items[i]) = k
        /\ \A j \in 1..(i - 1) : KeyFn(items[j]) # k

RawKey(m) == m.extension

\* counts maps exactly the keys of the items to their frequencies, most
\* frequent first, ties in order of first occurrence
CountsAre(KeyFn(_)) ==
    /\ KeysOf(counts) = {KeyFn(items[i]) : i \in 1..Len(items)}
    /\ \A i, j \in 1..Len(counts) : counts[i].k = counts[j].k => i = j
    /\ \A i \in 1..Len(counts) : counts[i].v = CountOf(counts[i].k, KeyFn)
    /\ \A i, j \in 1..Len(counts) :
          i < j =>
              /\ counts[i].v >= counts[j].v
              /\ (counts[i].v = counts[j].v =>
                     FirstAt(counts[i].k, KeyFn) < FirstAt(counts[j].k, KeyFn))

\* C8 as stated: the keys are exactly the distinct extension values, the
\* empty extension kept as the empty string.
C8_CountsRawExtension == pc = "counted" => CountsAre(RawKey)

\* C8 (amended): the keys are the distinct values of (extension or "-"),
\* the empty extension being counted under "-" together with "-" itself;
\* counts and order as stated.
C8_CountsPlaceholderKey == pc = "counted" => CountsAre(ExtKey)

\* a counted list with an empty extension, an extension "-" and a tie that
\* the input order decides against the sort order of a larger count
C8_Witness ==
    /\ pc = "counted"
    /\ \E i \in 1..Len(items) : items[i].extension = <<>>
    /\ \E i \in 1..Len(items) : items[i].extension = <<"-">>
    /\ Len(counts) >= 2
    /\ counts[1].v = 2
    /\ counts[1].k # ExtKey(items[1])

-----------------------------------------------------------------------------
(* C9 *)

\* C9 as stated: an OS error at a file's stat, text probe or preview read
\* makes that file contribute no record.
C9_AnyErrorSkipsFile ==
    \A n \in 1..Len(fileLog) :
        ("err" \in {fileLog[n].stat, fileLog[n].probe, fileLog[n].preview})
            => ~HasRecord(fileLog[n].path)

\* C9 (amended): an OS error at a file's stat makes exactly that file
\* contribute no record; an error at its text probe or preview read still
\* yields its record (is_text = false, resp. preview absent); in each case
\* the remaining entries of the directory are processed.
C9_StatErrorSkipsFile ==
    \A n \in 1..Len(fileLog) :
        LET l == fileLog[n]
        IN  /\ l.stat = "err" => ~HasRecord(l.path)
            /\ l.stat = "ok" => HasRecord(l.path)
            /\ l.probe = "err" =>
                  /\ HasRecord(l.path)
                  /\ RecordOf(l.path).is_text = FALSE
                  /\ RecordOf(l.path).preview = None
            /\ l.preview = "err" =>
                  /\ HasRecord(l.path)
                  /\ RecordOf(l.path).is_text = TRUE
                  /\ RecordOf(l.path).preview = None
            /\ ("err" \in {l.stat, l.probe, l.preview} /\ Finished) =>
                  \A sp \in LaterSiblings(l.path) : sp \in visited

\* the stat of a.txt failed: it has no record, and the later entries of the
\* directory were scanned, c in sub and z.MD yielded
C9_Witness ==
    /\ Finished
    /\ \E n \in 1..Len(fileLog) :
          /\ fileLog[n].path = p_proj \o <<n_atxt>>
          /\ fileLog[n].stat = "err"
    /\ HasRecord(p_sub \o <<n_c>>)
    /\ HasRecord(p_proj \o <<n_zmd>>)

-----------------------------------------------------------------------------
(* C10 *)

\* a NUL byte occurs among the first 1024 bytes of the file
NulInProbe(path) ==
    /\ FirstNul(ContentAt(path), 0) >= 0
    /\ FirstNul(ContentAt(path), 0) < 1024

\* C10: a record's is_text is false exactly when a NUL byte occurs among
\* the first 1024 bytes or the probe read failed; a failed probe read still
\* yields a record, with is_text = false and no preview.
C10_IsTextIffNoNulInProbe ==
    /\ Len(OkLog) = Len(out)
    /\ \A i \in 1..Len(out) :
          /\ OkLog[i].path = out[i].path
          /\ (out[i].is_text = FALSE) <=>
                (OkLog[i].probe = "err" \/ NulInProbe(out[i].path))
          /\ OkLog[i].probe = "err" => out[i].preview = None
    /\ \A n \in 1..Len(fileLog) :
          fileLog[n].probe = "err" => HasRecord(fileLog[n].path)

\* records of a file with a NUL at offset 1024 (text), of a file made of
\* invalid UTF-8 (text), of a file with a NUL at offset 0 (binary), and of a
\* file whose probe read failed
C10_Witness ==
    /\ HasRecord(p_sub \o <<n_c>>)
    /\ RecordOf(p_sub \o <<n_c>>).is_text
    /\ HasRecord(p_sub \o <<n_img>>)
    /\ ~RecordOf(p_sub \o <<n_img>>).is_text
    /\ HasRecord(p_hid \o <<n_stxt>>)
    /\ \E n \in 1..Len(fileLog) :
          /\ fileLog[n].probe = "err"
          /\ ~NulInProbe(fileLog[n].path)

====
